---- MODULE Spec2Model ----
(***************************************************************************)
(* Model of the code-review request action: the setup sequence (the "pre"  *)
(* script), the request sequence (the "main" script) and the helpers of     *)
(* utils.js they share.  Strings are TLA+ strings, read character by        *)
(* character with Head/Tail/SubSeq where the code parses them.  A value of  *)
(* the `states` mapping is kept in the form string coercion gives it,       *)
(* which is the only way the code ever uses one (template strings and       *)
(* core.saveState).                                                         *)
(***************************************************************************)
EXTENDS Integers, Sequences, FiniteSets, TLC

VARIABLES
    pc,            \* position of the running script
    typeInput,     \* core.getInput('type')
    refInput,      \* core.getInput('release')
    states,        \* the `states` object of the running script
    hostState,     \* what core.saveState has stored (STATE_<name>)
    failed,        \* number of core.setFailed calls of the running script
    failMsg,       \* message of the last core.setFailed
    errorMsg,      \* message of the error being thrown to the catch block
    warnings,      \* exports.warnings
    summaries,     \* number of core.warning summaries emitted by checkWarnings
    notices,       \* number of core.notice(success) calls
    log,           \* steps the running script has executed, in order
    failedAt,      \* position in log of the first step that failed, 0 when none
    setupLog,      \* the steps the setup script executed (kept after it ends)
    saves,         \* number of saveStates calls
    restores,      \* number of restoreStates calls
    workflow_runs, \* the list the forge returned to listWorkflowRuns
    apiStatus,     \* statuses returned to the calls of the step just taken
    verified,      \* what verifyRelease returned (details.workflow)
    funApproved,   \* numbers of the approved issues the forge listed (functionality)
    desApproved,   \* numbers of the approved issues the forge listed (design)
    openPulls,     \* numbers of the open pull requests the forge listed
    funPassed,     \* the local funPassed of checkIssues
    issues,        \* what checkIssues returned
    cloned,        \* project-main exists in the workspace
    sources,       \* project-main/src/main/java exists in the workspace
    changed,       \* exit code of git diff --exit-code --quiet
    branch,        \* the local review branch, once created
    todoCount,     \* lines of the source tree matching the TODO pattern
    mainCount,     \* lines of the source tree matching the main-method pattern
    status,        \* the `status` object of the request script
    pushed,        \* the review branch was pushed to the remote
    milestone,     \* the milestone getMilestone returned
    pulls,         \* the prior pull requests still to be rendered
    rows,          \* number of rows rendered in the pull-request table
    pullRequest,   \* number of the pull request created, 0 when none
    updated,       \* labels, milestone and assignee were set
    reviewers,     \* reviewers were requested
    commented,     \* the instructions were posted
    rt,            \* round-trip check: the mapping given to saveStates
    engine,        \* label sort: the Array.prototype.sort of the runtime
    labels,        \* label sort: pull.labels as the forge listed them
    rendered,      \* label sort: the names in the order the table shows them
    created        \* the pull requests earlier runs created, still open

vars == <<pc, typeInput, refInput, states, hostState, failed, failMsg, errorMsg,
          warnings, summaries, notices, log, failedAt, setupLog, saves, restores,
          workflow_runs, apiStatus, verified, funApproved, desApproved,
          openPulls, funPassed, issues, cloned, sources, changed, branch, todoCount, mainCount,
          status, pushed, milestone, pulls, rows, pullRequest, updated,
          reviewers, commented, rt, engine, labels, rendered, created>>

-----------------------------------------------------------------------------
(* Bounds of the model *)

MaxRuns == 2      \* workflow runs in one listing
MaxIssues == 2    \* issues in one label-filtered listing
MaxPulls == 1     \* prior pull requests of the project
MaxMatches == 2   \* matching lines a grep scan can find
MaxLabels == 3    \* labels on one prior pull request
MaxOpen == 1      \* pull requests of earlier runs open when a run starts

-----------------------------------------------------------------------------
(* Values *)

None == "none"                      \* undefined / no value
Empty == [k \in {} |-> ""]          \* the object {}

Assign(f, g) ==                     \* Object.assign(f, g)
    [k \in (DOMAIN f) \cup (DOMAIN g) |-> IF k \in DOMAIN g THEN g[k] ELSE f[k]]

Ok(v) == [ok |-> TRUE, value |-> v, error |-> ""]
Throw(msg) == [ok |-> FALSE, value |-> None, error |-> msg]

testDir == "project-tests"
owner == "owner"
repo == "repo"

-----------------------------------------------------------------------------
(* utils.js: checkRequestType and parseProject *)

MissingType == "Missing required review request type."
InvalidType == "not a valid code review type."
ParseError == "Unable to parse project information"

Digits == {"0", "1", "2", "3", "4", "5", "6", "7", "8", "9"}

DigitValue(c) ==
    CASE c = "0" -> 0 [] c = "1" -> 1 [] c = "2" -> 2 [] c = "3" -> 3
      [] c = "4" -> 4 [] c = "5" -> 5 [] c = "6" -> 6 [] c = "7" -> 7
      [] c = "8" -> 8 [] c = "9" -> 9

RECURSIVE ToNumber(_)
ToNumber(s) ==                      \* unary plus on a string of digits
    IF Len(s) = 0 THEN 0
    ELSE 10 * ToNumber(SubSeq(s, 1, Len(s) - 1)) + DigitValue(SubSeq(s, Len(s), Len(s)))

IsDigits(s) ==                      \* \d+
    /\ Len(s) > 0
    /\ \A i \in 1..Len(s) : SubSeq(s, i, i) \in Digits

RECURSIVE LastToken(_)
LastToken(s) ==                     \* ref.split('/') and its last element
    IF \E i \in 1..Len(s) : SubSeq(s, i, i) = "/"
    THEN LastToken(Tail(s))
    ELSE s

IndexOfDot(s) ==                    \* 0 when s has no dot
    IF \E i \in 1..Len(s) : SubSeq(s, i, i) = "."
    THEN CHOOSE i \in 1..Len(s) :
            /\ SubSeq(s, i, i) = "."
            /\ \A j \in 1..(i - 1) : SubSeq(s, j, j) # "."
    ELSE 0

MatchAnyProject(version) ==
    IF /\ Len(version) >= 6
       /\ SubSeq(version, 1, 1) = "v"
       /\ SubSeq(version, 2, 2) \in Digits
       /\ SubSeq(version, 3, 3) = "."
    THEN LET rest == SubSeq(version, 4, Len(version))
             dot == IndexOfDot(rest)
             second == SubSeq(rest, 1, dot - 1)
             third == SubSeq(rest, dot + 1, Len(rest))
         IN  IF dot > 0 /\ IsDigits(second) /\ IsDigits(third)
             THEN <<SubSeq(version, 2, 2), second, third>>
             ELSE <<>>
    ELSE <<>>

\* version.match(/^v([1-4])\.(\d+)\.(\d+)$/): the three groups, or <<>> for null
Match(version) ==
    IF /\ Len(version) >= 6
       /\ SubSeq(version, 1, 1) = "v"
       /\ SubSeq(version, 2, 2) \in {"1", "2", "3", "4"}
       /\ SubSeq(version, 3, 3) = "."
    THEN LET rest == SubSeq(version, 4, Len(version))
             dot == IndexOfDot(rest)
             second == SubSeq(rest, 1, dot - 1)
             third == SubSeq(rest, dot + 1, Len(rest))
         IN  IF dot > 0 /\ IsDigits(second) /\ IsDigits(third)
             THEN <<SubSeq(version, 2, 2), second, third>>
             ELSE <<>>
    ELSE <<>>

checkRequestType(type) ==
    IF Len(type) = 0 THEN Throw(MissingType)
    ELSE LET c == SubSeq(type, 1, 1)
         IN  IF c \in {"s", "S"} THEN Ok("Synchronous")
             ELSE IF c \in {"a", "A"} THEN Ok("Asynchronous")
             ELSE Throw(InvalidType)

parseProject(type, ref) ==
    LET checked == checkRequestType(type)
        version == LastToken(ref)
        matched == Match(version)
    IN  IF ~checked.ok THEN checked
        ELSE IF matched = <<>> THEN Throw(ParseError)
        ELSE Ok([type |-> checked.value,
                 owner |-> owner,
                 mainRepo |-> owner \o "/" \o repo,
                 testRepo |-> owner \o "/" \o testDir,
                 project |-> ToString(ToNumber(matched[1])),
                 reviews |-> ToString(ToNumber(matched[2])),
                 patches |-> ToString(ToNumber(matched[3])),
                 version |-> version])

-----------------------------------------------------------------------------
(* Array.prototype.find, given the positions of the elements that satisfy   *)
(* the test: the first such position, 0 when there is none                  *)

FindIndex(matching) ==
    IF matching # {}
    THEN CHOOSE i \in matching : \A j \in matching : i <= j
    ELSE 0

-----------------------------------------------------------------------------
(* utils.js: verifyRelease *)

FetchError == "Unable to fetch release"
ListRunsError == "Unable to verify release (exit code)"
RunNotFound == "Unable to verify release (workflow run not found)"
RunNotSuccessful == "Unable to verify release (run not successful)"

\* the runs the forge can hold for a repository with a release `release`
RunKinds(release) ==
    [event : {"release", "push"},
     name : {"Run Project Tests", "Other"},
     head_branch : {release, "main"},
     outcome : {<<"completed", "success">>, <<"completed", "failure">>,
                <<"in_progress", "null">>}]

\* listings of at most MaxRuns runs, newest first, numbered in creation order;
\* a run's id and html_url identify the run as its run_number does
WorkflowRuns(release) ==
    UNION { { [i \in 1..n |->
                 [event |-> k[i].event, name |-> k[i].name,
                  head_branch |-> k[i].head_branch,
                  status |-> k[i].outcome[1], conclusion |-> k[i].outcome[2],
                  run_number |-> n - i + 1]] :
              k \in [1..n -> RunKinds(release)] } : n \in 0..MaxRuns }

IsReleaseTestRun(r) == r.event = "release" /\ r.name = "Run Project Tests"

\* `filtered`, which the code computes and uses for the "Found Runs" log line
filtered(runs) == SelectSeq(runs, IsReleaseTestRun)

\* the list `found` is searched in: result.data.workflow_runs
SearchedRuns(runs) == runs

LastRunOfBranch(runs, release) ==
    IF \E i \in 1..Len(runs) : runs[i].head_branch = release
    THEN CHOOSE i \in 1..Len(runs) :
            /\ runs[i].head_branch = release
            /\ \A j \in (i + 1)..Len(runs) : runs[j].head_branch # release
    ELSE 0

FoundRun(runs, release) ==
    FindIndex({i \in 1..Len(runs) : runs[i].head_branch = release})

verifyRelease(releaseStatus, listStatus, runs, release) ==
    IF releaseStatus # 200 THEN Throw(FetchError)
    ELSE IF listStatus # 200 THEN Throw(ListRunsError)
    ELSE LET searched == SearchedRuns(runs)
             found == FoundRun(searched, release)
         IN  IF found = 0 THEN Throw(RunNotFound)
             ELSE IF \/ searched[found].status # "completed"
                     \/ searched[found].conclusion # "success"
             THEN Throw(RunNotSuccessful)
             ELSE Ok([release |-> [tag_name |-> release,
                                   html_url |-> "releases/tag/" \o release,
                                   created_at |-> "created_at"],
                      workflow |-> searched[found]])

-----------------------------------------------------------------------------
(* utils.js: getIssues;  setup script: checkIssues *)

ListIssuesError == "Unable to list issues"
NoFunctionality == "Unable to detect approved functionality issue"
DesignApproved == "Detected approved design issue"
OpenPullRequest == "Detected open pull request"

\* issues of a label-filtered listing: number n, and the fields the code reads;
\* pull_request is TRUE when the item has a pull_request object (the forge
\* always puts html_url in it)
Locks == {<<FALSE, "null">>, <<TRUE, "resolved">>, <<TRUE, "off-topic">>}

IssueKinds == [state : {"open", "closed"}, lock : Locks, pull_request : {FALSE}]

PullKinds == [state : {"open", "closed"}, lock : {<<FALSE, "null">>},
              pull_request : {TRUE, FALSE}]

Listings(kinds, max, base) ==
    UNION { { [i \in 1..n |->
                 [number |-> base + i, state |-> k[i].state,
                  locked |-> k[i].lock[1], active_lock_reason |-> k[i].lock[2],
                  pull_request |-> k[i].pull_request]] :
              k \in [1..n -> kinds] } : n \in 0..max }

getIssues(listStatus, data) ==
    IF listStatus # 200 THEN Throw(ListIssuesError) ELSE Ok(data)

Approved(x) ==
    x.state = "closed" /\ x.locked = TRUE /\ x.active_lock_reason = "resolved"

IsOpenPull(x) == x.state = "open" /\ x.pull_request

\* the positions of the approved issues, and of the open pull requests, of a
\* listing
ApprovedIn(list) == {i \in 1..Len(list) : Approved(list[i])}
OpenPullsIn(list) == {i \in 1..Len(list) : IsOpenPull(list[i])}

NumbersOf(list, matching) == {list[i].number : i \in matching}

ApprovedAndOpen(x) ==
    x.state = "open" /\ x.locked = TRUE /\ x.active_lock_reason = "resolved"

LastApproved(list) ==
    IF \E i \in 1..Len(list) : Approved(list[i])
    THEN CHOOSE i \in 1..Len(list) :
            /\ Approved(list[i])
            /\ \A j \in (i + 1)..Len(list) : ~Approved(list[j])
    ELSE 0

\* funPassed = funIssues.find(...), as an index into the list
findFunPassed(funIssues) == FindIndex(ApprovedIn(funIssues))

findDesPassedOpen(desIssues) == FindIndex({i \in 1..Len(desIssues) : ApprovedAndOpen(desIssues[i])})

\* desPassed = desIssues.find(...)
findDesPassed(desIssues) == FindIndex(ApprovedIn(desIssues))

findOpenPullSync(syncPulls, asyncPulls) == FindIndex(OpenPullsIn(syncPulls))

\* pulls = syncPulls.concat(asyncPulls); openPull = pulls.find(...)
findOpenPull(syncPulls, asyncPulls) == FindIndex(OpenPullsIn(syncPulls \o asyncPulls))

-----------------------------------------------------------------------------
(* utils.js: checkExec.  `code` is the exit code exec.exec resolves to;     *)
(* exec.exec rejects when the working directory it is given does not exist. *)

ExitCodes == {0, 1}
DiffCodes == {0, 1, 128}      \* git diff --exit-code: same, different, error
NoCwd == "The cwd does not exist"

checkExec(code, hasError, error, cwdExists) ==
    IF ~cwdExists THEN Throw(NoCwd)
    ELSE IF hasError /\ code # 0 THEN Throw(error)
    ELSE Ok(code)

-----------------------------------------------------------------------------
(* setup script: cloneProject and prepareBranch *)

CloneFailed == "Failed cloning repository"
ListFailed == "Unable to list test directory"
FetchFailed == "Unable to fetch history and tags"
CompareFailed == "Unable compare main branch and release"
MainChanged == "The main branch has one or more commits since release"
ConfigNameFailed == "Unable to configure github action user"
ConfigEmailFailed == "Unable to configure github action email"
CheckoutFailed == "Unable to create review branch"

\* codes: the exit codes of git clone and ls
cloneProject(codes) ==
    LET clone == checkExec(codes[1], TRUE, CloneFailed, TRUE)
        list == checkExec(codes[2], TRUE, ListFailed, TRUE)
    IN  IF ~clone.ok THEN clone
        ELSE IF ~list.ok THEN list
        ELSE Ok(None)

DiffGateInverted(result) == result = 0

\* if (changed != 0) throw
DiffGate(result) == result # 0

\* codes: the exit codes of fetch, diff --shortstat, diff --exit-code, the two
\* config commands and checkout -b, run in project-main
prepareBranch(codes, release, cwdExists) ==
    LET fetch == checkExec(codes[1], TRUE, FetchFailed, cwdExists)
        stat == checkExec(codes[2], TRUE, CompareFailed, cwdExists)
        diff == checkExec(codes[3], FALSE, "", cwdExists)
        name == checkExec(codes[4], TRUE, ConfigNameFailed, cwdExists)
        email == checkExec(codes[5], TRUE, ConfigEmailFailed, cwdExists)
        checkout == checkExec(codes[6], TRUE, CheckoutFailed, cwdExists)
    IN  IF ~fetch.ok THEN fetch
        ELSE IF ~stat.ok THEN stat
        ELSE IF ~diff.ok THEN diff
        ELSE IF DiffGate(diff.value) THEN Throw(MainChanged)
        ELSE IF ~name.ok THEN name
        ELSE IF ~email.ok THEN email
        ELSE IF ~checkout.ok THEN checkout
        ELSE Ok("review/" \o release)

\* whether prepareBranch got as far as running git diff --exit-code
DiffRan(codes) == codes[1] = 0 /\ codes[2] = 0

-----------------------------------------------------------------------------
(* utils.cacheMaven: called by the setup script, defined nowhere in utils.js *)
(* as it stands; an external step that returns cache metadata or throws      *)

CacheFailed == "Unable to restore the build cache"

cacheMaven(hit, fails) ==
    IF fails THEN Throw(CacheFailed)
    ELSE Ok([cacheHit |-> IF hit THEN "true" ELSE "false"])

-----------------------------------------------------------------------------
(* JSON.stringify and JSON.parse of an array of strings *)

EscapePlain(str) == str

RECURSIVE Escape(_)
Escape(str) ==                      \* the inside of a JSON string literal
    IF Len(str) = 0 THEN ""
    ELSE LET c == Head(str)
         IN  (IF c = "\"" THEN "\\\"" ELSE IF c = "\\" THEN "\\\\" ELSE c)
                \o Escape(Tail(str))

RECURSIVE JoinQuoted(_)
JoinQuoted(list) ==
    IF Len(list) = 0 THEN ""
    ELSE "\"" \o Escape(Head(list)) \o "\""
            \o (IF Len(list) > 1 THEN "," ELSE "") \o JoinQuoted(Tail(list))

JSONstringify(list) == "[" \o JoinQuoted(list) \o "]"

Char(text, i) == SubSeq(text, i, i)

\* number of backslashes that end right before position i
BackslashesBefore(text, i) ==
    CHOOSE n \in 0..(i - 1) :
        /\ \A m \in 1..n : Char(text, i - m) = "\\"
        /\ n = i - 1 \/ Char(text, i - n - 1) # "\\"

\* position of the quote that closes the literal opened at position i
ClosingQuote(text, i) ==
    CHOOSE j \in (i + 1)..Len(text) :
        /\ Char(text, j) = "\"" /\ BackslashesBefore(text, j) % 2 = 0
        /\ \A m \in (i + 1)..(j - 1) :
              ~(Char(text, m) = "\"" /\ BackslashesBefore(text, m) % 2 = 0)

RECURSIVE Unescape(_)
Unescape(str) ==
    IF Len(str) = 0 THEN ""
    ELSE IF Head(str) = "\\" THEN Char(str, 2) \o Unescape(SubSeq(str, 3, Len(str)))
    ELSE Head(str) \o Unescape(Tail(str))

RECURSIVE ParseArray(_)
ParseArray(text) ==                 \* the string literals of the text, in order
    IF \A i \in 1..Len(text) : Char(text, i) # "\""
    THEN <<>>
    ELSE LET open == CHOOSE i \in 1..Len(text) :
                        /\ Char(text, i) = "\""
                        /\ \A m \in 1..(i - 1) : Char(text, m) # "\""
             close == ClosingQuote(text, open)
         IN  <<Unescape(SubSeq(text, open + 1, close - 1))>>
                \o ParseArray(SubSeq(text, close + 1, Len(text)))

JSONparse(text) == ParseArray(text)

-----------------------------------------------------------------------------
(* utils.js: saveStates and restoreStates over core.saveState/core.getState *)

RECURSIVE ObjectKeys(_)
ObjectKeys(object) ==               \* the keys of an object, as a list
    IF DOMAIN object = {} THEN <<>>
    ELSE LET k == CHOOSE x \in DOMAIN object : TRUE
         IN  <<k>> \o ObjectKeys([y \in (DOMAIN object) \ {k} |-> object[y]])

saveState(host, name, value) ==     \* core.saveState
    [k \in (DOMAIN host) \cup {name} |-> IF k = name THEN value ELSE host[k]]

getState(host, name) ==             \* core.getState: '' when nothing is stored
    IF name \in DOMAIN host THEN host[name] ELSE ""

RECURSIVE SaveEach(_, _, _)
SaveEach(host, object, keys) ==
    IF Len(keys) = 0 THEN host
    ELSE SaveEach(saveState(host, Head(keys), object[Head(keys)]), object, Tail(keys))

saveStates(host, object) ==
    saveState(SaveEach(host, object, ObjectKeys(object)),
              "keys", JSONstringify(ObjectKeys(object)))

RECURSIVE RestoreEach(_, _, _)
RestoreEach(object, host, keys) ==
    IF Len(keys) = 0 THEN object
    ELSE RestoreEach(Assign(object, [k \in {Head(keys)} |-> getState(host, Head(keys))]),
                     host, Tail(keys))

restoreStates(object, host) ==
    LET saved == getState(host, "keys")
    IN  IF saved # "" THEN RestoreEach(object, host, JSONparse(saved)) ELSE object

-----------------------------------------------------------------------------
(* The two scripts: the order of their steps *)

SetupStepsSaveEarly ==
    <<"parseProject", "verifyRelease", "checkIssues", "cloneProject",
      "prepareBranch", "saveStates", "cacheMaven">>

\* setup script, run(): the body of its try block
SetupSteps ==
    <<"parseProject", "verifyRelease", "checkIssues", "cloneProject",
      "prepareBranch", "cacheMaven", "saveStates">>

IndexOf(steps, step) == CHOOSE i \in 1..Len(steps) : steps[i] = step

\* the step that follows `step`, `end` after the last one
NextStep(steps, step, end) ==
    IF IndexOf(steps, step) < Len(steps) THEN steps[IndexOf(steps, step) + 1] ELSE end

checkWarnings(count) ==             \* number of core.warning calls it makes
    IF count > 1 THEN 1 ELSE IF count = 1 THEN 1 ELSE 0

-----------------------------------------------------------------------------
(* Initial state: the setup script is about to run *)

TypeInputs == {"", "s", "Async", "x"}
RefInputs == {"v2.3.1", "v2.4.0", "refs/tags/v1.0.07", "v5.0.0", "v1.0", "v1.0.x", ""}

Fresh ==
    /\ states = Empty /\ hostState = Empty
    /\ failed = [setup |-> 0, request |-> 0]
    /\ failMsg = "" /\ errorMsg = ""
    /\ warnings = 0 /\ summaries = 0 /\ notices = 0
    /\ log = <<>> /\ failedAt = 0 /\ setupLog = <<>>
    /\ saves = 0 /\ restores = 0
    /\ workflow_runs = <<>> /\ apiStatus = <<>> /\ verified = <<>>
    /\ funApproved = {} /\ desApproved = {} /\ openPulls = {}
    /\ funPassed = <<>> /\ issues = <<>>
    /\ cloned = FALSE /\ sources = FALSE /\ changed = -1 /\ branch = ""
    /\ todoCount = -1 /\ mainCount = -1 /\ status = Empty
    /\ pushed = FALSE /\ milestone = 0 /\ pulls = <<>> /\ rows = 0
    /\ pullRequest = 0 /\ updated = FALSE /\ reviewers = FALSE
    /\ commented = FALSE

NoLabels == engine = "" /\ labels = <<>> /\ rendered = <<>>

\* the forge holds no pull request of this workflow
NoReviews == created = <<>>

Init ==
    /\ pc = "parseProject"
    /\ typeInput \in TypeInputs
    /\ refInput \in RefInputs
    /\ rt = Empty
    /\ Fresh /\ NoLabels /\ NoReviews

inputs == <<typeInput, refInput>>
render == <<engine, labels, rendered>>
outputs == <<failed, failMsg, warnings, summaries, notices>>
stores == <<hostState, saves, restores, setupLog, rt>>
forge == <<workflow_runs, apiStatus, verified, funApproved, desApproved,
           openPulls, funPassed, issues>>
tree == <<cloned, sources, changed, branch>>
request == <<todoCount, mainCount, status, pushed, milestone, pulls, rows,
             pullRequest, updated, reviewers, commented>>

\* a step of a try block that returned or threw `r`: the next step, or the
\* catch block with the error
Step(name, r, next, catch) ==
    /\ log' = Append(log, name)
    /\ pc' = IF r.ok THEN next ELSE catch
    /\ errorMsg' = IF r.ok THEN errorMsg ELSE r.error
    /\ failedAt' = IF failedAt = 0 /\ ~r.ok THEN Len(log) + 1 ELSE failedAt

\* the same for a later await of a step already in the log
SubStep(r, next, catch) ==
    /\ log' = log
    /\ pc' = IF r.ok THEN next ELSE catch
    /\ errorMsg' = IF r.ok THEN errorMsg ELSE r.error
    /\ failedAt' = IF failedAt = 0 /\ ~r.ok THEN Len(log) ELSE failedAt

-----------------------------------------------------------------------------
(* The setup script *)

ParseProject ==
    /\ pc = "parseProject"
    /\ LET r == parseProject(typeInput, refInput)
       IN  /\ Step("parseProject", r, NextStep(SetupSteps, "parseProject", "setup.finally"),
                   "setup.catch")
           /\ states' = IF r.ok THEN Assign(states, r.value) ELSE states
    /\ UNCHANGED <<render, created, inputs, outputs, stores, forge, tree, request>>

VerifyRelease ==
    /\ pc = "verifyRelease"
    /\ \E releaseStatus \in {200, 404}, listStatus \in {200, 500},
          runs \in WorkflowRuns(states.version) :
          LET r == verifyRelease(releaseStatus, listStatus, runs, states.version)
              run == r.value.workflow
          IN  /\ Step("verifyRelease", r,
                      NextStep(SetupSteps, "verifyRelease", "setup.finally"), "setup.catch")
              /\ apiStatus' = IF releaseStatus = 200 THEN <<releaseStatus, listStatus>>
                              ELSE <<releaseStatus>>
              /\ workflow_runs' = IF releaseStatus = 200 /\ listStatus = 200
                                  THEN runs ELSE <<>>
              /\ verified' = IF r.ok THEN <<run>> ELSE <<>>
              /\ states' = IF r.ok
                           THEN Assign(states,
                                  [releaseUrl |-> r.value.release.html_url,
                                   releaseTag |-> r.value.release.tag_name,
                                   releaseDate |-> r.value.release.created_at,
                                   runNumber |-> ToString(run.run_number),
                                   runId |-> ToString(run.run_number),
                                   runUrl |-> "actions/runs/" \o ToString(run.run_number)])
                           ELSE states
    /\ UNCHANGED <<render, created, inputs, outputs, stores, tree, request,
                   funApproved, desApproved, openPulls, funPassed, issues>>

\* checkIssues, up to the functionality check
CheckFunctionality ==
    /\ pc = "checkIssues"
    /\ \E listStatus \in {200, 500}, data \in Listings(IssueKinds, MaxIssues, 0) :
          LET listed == getIssues(listStatus, data)
              found == findFunPassed(data)
              r == IF ~listed.ok THEN listed
                   ELSE IF found = 0 THEN Throw(NoFunctionality)
                   ELSE Ok(data[found])
          IN  /\ Step("checkIssues", r, "checkIssues.design", "setup.catch")
              /\ apiStatus' = <<listStatus>>
              /\ funApproved' = IF listed.ok THEN NumbersOf(data, ApprovedIn(data)) ELSE {}
              /\ funPassed' = IF r.ok THEN <<r.value>> ELSE <<>>
    /\ workflow_runs' = <<>> /\ verified' = <<>>   \* verifyRelease has returned
    /\ UNCHANGED <<render, created, inputs, outputs, stores, tree, request, states,
                   desApproved, openPulls, issues>>

\* checkIssues, the design check
CheckDesign ==
    /\ pc = "checkIssues.design"
    /\ \E listStatus \in {200, 500}, data \in Listings(IssueKinds, MaxIssues, 10) :
          LET listed == getIssues(listStatus, data)
              r == IF ~listed.ok THEN listed
                   ELSE IF findDesPassed(data) # 0 THEN Throw(DesignApproved)
                   ELSE Ok(None)
          IN  /\ SubStep(r, "checkIssues.pulls", "setup.catch")
              /\ apiStatus' = Append(apiStatus, listStatus)
              /\ desApproved' = IF listed.ok THEN NumbersOf(data, ApprovedIn(data)) ELSE {}
    /\ UNCHANGED <<render, created, inputs, outputs, stores, tree, request, states,
                   workflow_runs, verified, funApproved, openPulls, funPassed, issues>>

\* checkIssues, the open pull request check and the return
\* the pull requests of earlier runs that carry the labels of the project:
\* listForRepo with labels project<n>,<type> and state all lists each of them
\* in the synchronous or in the asynchronous listing
ProjectOf(version) == SubSeq(version, 2, 2)

Labelled(project) ==
    {i \in 1..Len(created) :
        created[i].labelled /\ ProjectOf(created[i].version) = project}

CheckPulls ==
    /\ pc = "checkIssues.pulls"
    /\ \E syncStatus \in {200, 500}, asyncStatus \in {200, 500},
          syncPulls \in Listings(PullKinds, MaxIssues, 20) :
          \E asyncPulls \in Listings(PullKinds, MaxIssues, 20 + Len(syncPulls)) :
          LET sync == getIssues(syncStatus, syncPulls)
              async == getIssues(asyncStatus, asyncPulls)
              all == syncPulls \o asyncPulls
              r == IF ~sync.ok THEN sync
                   ELSE IF ~async.ok THEN async
                   ELSE IF findOpenPull(syncPulls, asyncPulls) # 0 THEN Throw(OpenPullRequest)
                   ELSE Ok([issueNumber |-> ToString(funPassed[1].number),
                            issueUrl |-> "issues/" \o ToString(funPassed[1].number)])
          IN  /\ Labelled(states.project) # {} => OpenPullsIn(all) # {}
              /\ SubStep(r, NextStep(SetupSteps, "checkIssues", "setup.finally"),
                         "setup.catch")
              /\ apiStatus' = IF sync.ok THEN apiStatus \o <<syncStatus, asyncStatus>>
                              ELSE Append(apiStatus, syncStatus)
              /\ openPulls' = IF ~sync.ok THEN {}
                              ELSE IF ~async.ok THEN NumbersOf(syncPulls, OpenPullsIn(syncPulls))
                              ELSE NumbersOf(all, OpenPullsIn(all))
              /\ issues' = IF r.ok THEN <<r.value>> ELSE <<>>
              /\ states' = IF r.ok THEN Assign(states, r.value) ELSE states
    /\ UNCHANGED <<render, created, inputs, outputs, stores, tree, request,
                   workflow_runs, verified, funApproved, desApproved, funPassed>>

CloneProject ==
    /\ pc = "cloneProject"
    /\ \E codes \in ExitCodes \X ExitCodes :
          /\ Step("cloneProject", cloneProject(codes),
                  NextStep(SetupSteps, "cloneProject", "setup.finally"), "setup.catch")
          /\ cloned' = (codes[1] = 0)
          /\ sources' = (codes[1] = 0 /\ codes[2] = 0)
    /\ UNCHANGED <<render, created, inputs, outputs, stores, forge, request, states, changed, branch>>

PrepareBranch ==
    /\ pc = "prepareBranch"
    /\ \E codes \in ExitCodes \X ExitCodes \X DiffCodes \X ExitCodes \X ExitCodes \X ExitCodes :
          LET r == prepareBranch(codes, states.version, cloned)
          IN  /\ Step("prepareBranch", r,
                      NextStep(SetupSteps, "prepareBranch", "setup.finally"), "setup.catch")
              /\ changed' = IF DiffRan(codes) THEN codes[3] ELSE -1
              /\ branch' = IF r.ok THEN r.value ELSE ""
              /\ states' = IF r.ok THEN Assign(states, [branch |-> r.value]) ELSE states
    /\ UNCHANGED <<render, created, inputs, outputs, stores, forge, request, cloned, sources>>

CacheMaven ==
    /\ pc = "cacheMaven"
    /\ \E hit \in BOOLEAN, fails \in BOOLEAN :
          LET r == cacheMaven(hit, fails)
          IN  /\ Step("cacheMaven", r,
                      NextStep(SetupSteps, "cacheMaven", "setup.finally"), "setup.catch")
              /\ states' = IF r.ok THEN Assign(states, r.value) ELSE states
    /\ UNCHANGED <<render, created, inputs, outputs, stores, forge, tree, request>>

SaveStates ==
    /\ pc = "saveStates"
    /\ Step("saveStates", Ok(None),
            NextStep(SetupSteps, "saveStates", "setup.finally"), "setup.catch")
    /\ hostState' = saveStates(hostState, states)
    /\ saves' = saves + 1
    /\ UNCHANGED <<render, created, inputs, outputs, forge, tree, request, states, restores, setupLog, rt>>

\* the catch block: showError, core.setFailed
SetupCatch ==
    /\ pc = "setup.catch"
    /\ failed' = [failed EXCEPT !.setup = @ + 1]
    /\ failMsg' = "Setup failed. " \o errorMsg
    /\ pc' = "setup.finally"
    /\ UNCHANGED <<render, created, inputs, stores, forge, tree, request, states, errorMsg,
                   warnings, summaries, notices, log, failedAt>>

\* the finally block: the status log and checkWarnings
SetupFinally ==
    /\ pc = "setup.finally"
    /\ summaries' = summaries + checkWarnings(warnings)
    /\ setupLog' = log
    /\ pc' = "setup.done"
    /\ UNCHANGED <<render, created, inputs, forge, tree, request, states, errorMsg, failed, failMsg,
                   warnings, notices, log, failedAt, hostState, saves, restores, rt>>

\* the host starts the request script: a new process, whose objects, warning
\* counter and outputs are new; the workspace and the saved state remain
StartRequest ==
    /\ pc = "setup.done"
    /\ pc' = "restoreStates"
    /\ typeInput' = "" /\ refInput' = ""
    /\ states' = Empty /\ errorMsg' = "" /\ failMsg' = ""
    /\ warnings' = 0 /\ summaries' = 0
    /\ log' = <<>> /\ failedAt' = 0
    /\ workflow_runs' = <<>> /\ apiStatus' = <<>> /\ verified' = <<>>
    /\ funApproved' = {} /\ desApproved' = {} /\ openPulls' = {}
    /\ funPassed' = <<>> /\ issues' = <<>>
    /\ UNCHANGED <<render, created, stores, request, failed, notices, tree>>

-----------------------------------------------------------------------------
(* The request script *)

\* request script, run(): the body of its try block; listReviews is the body
\* of the loop over the prior pull requests
RequestSteps ==
    <<"restoreStates", "showVersions", "compile", "todoGrep", "mainGrep",
      "branchCommit", "branchPush", "getMilestone", "getPullRequests",
      "listReviews", "createPull", "updateIssue", "requestReviewers",
      "createComment", "showSuccess">>

After(step) == NextStep(RequestSteps, step, "request.finally")

Get(object, key) ==                 \* a property in a template string
    IF key \in DOMAIN object THEN object[key] ELSE "undefined"

JavaFailed == "Unable to display Java runtime version"
JavacFailed == "Unable to display Java compiler version"
MavenFailed == "Unable to display Maven version"
CompileFailed == "Unable to compiling code without warnings"
ClassesFailed == "Unable to list main class directory"
TodoFound == "One or more TODO comments found"
MainFound == "More than one main method found"
CommitFailed == "Unable to commit branch"
PushFailed == "Unable to push branch"
SONError == "SON is not defined"
MilestoneFailed == "Unable to create milestone"
ListPullsFailed == "Unable to list pull requests"
NotAnArray == "reviews.data.filter is not a function"
CreateFailed == "Unable to create pull request"
UpdateFailed == "Unable to update labels for pull request"
ReviewersFailed == "Unable to request reviewers for pull request"
CommentFailed == "Unable to add comment for pull request"

RestoreStates ==
    /\ pc = "restoreStates"
    /\ Step("restoreStates", Ok(None), After("restoreStates"), "request.catch")
    /\ states' = restoreStates(states, hostState)
    /\ restores' = restores + 1
    /\ UNCHANGED <<render, created, inputs, outputs, forge, tree, request, hostState, saves, setupLog, rt>>

\* codes: the exit codes of java, javac and mvn --version
showVersions(codes) ==
    LET java == checkExec(codes[1], TRUE, JavaFailed, TRUE)
        javac == checkExec(codes[2], TRUE, JavacFailed, TRUE)
        mvn == checkExec(codes[3], TRUE, MavenFailed, TRUE)
    IN  IF ~java.ok THEN java ELSE IF ~javac.ok THEN javac ELSE mvn

ShowVersions ==
    /\ pc = "showVersions"
    /\ \E codes \in ExitCodes \X ExitCodes \X ExitCodes :
          Step("showVersions", showVersions(codes), After("showVersions"), "request.catch")
    /\ UNCHANGED <<render, created, inputs, outputs, stores, forge, tree, request, states>>

\* codes: the exit codes of mvn clean compile (run in project-main) and ls
compile(codes, cwdExists) ==
    LET mvn == checkExec(codes[1], TRUE, CompileFailed, cwdExists)
        list == checkExec(codes[2], TRUE, ClassesFailed, TRUE)
    IN  IF ~mvn.ok THEN mvn ELSE list

Compile ==
    /\ pc = "compile"
    /\ \E codes \in ExitCodes \X ExitCodes :
          LET r == compile(codes, cloned)
          IN  /\ Step("compile", r, After("compile"), "request.catch")
              /\ status' = IF cloned /\ codes[1] = 0
                           THEN Assign(status, [mainCompile |-> codes[1]]) ELSE status
    /\ UNCHANGED <<render, created, inputs, outputs, stores, forge, tree, states, todoCount, mainCount,
                   pushed, milestone, pulls, rows, pullRequest, updated, reviewers,
                   commented>>

\* the exit status of grep: 0 when lines were selected, 1 when none were,
\* 2 when an error occurred
GrepExit(count, trouble) ==
    IF trouble THEN 2 ELSE IF count > 0 THEN 0 ELSE 1

\* if (status.todoGrep != 1) throw
TodoGate(result) == result # 1

MainGateCount(result) == result # 0

\* if (status.mainGrep != 1) throw
MainGate(result) == result # 1

TodoGrep ==
    /\ pc = "todoGrep"
    /\ \E count \in 0..MaxMatches, trouble \in BOOLEAN :
          LET run == checkExec(GrepExit(count, trouble), FALSE, "", sources)
              r == IF ~run.ok THEN run
                   ELSE IF TodoGate(run.value) THEN Throw(TodoFound)
                   ELSE run
          IN  /\ Step("todoGrep", r, After("todoGrep"), "request.catch")
              /\ todoCount' = IF run.ok THEN count ELSE -1
              /\ status' = IF run.ok THEN Assign(status, [todoGrep |-> run.value])
                           ELSE status
    /\ UNCHANGED <<render, created, inputs, outputs, stores, forge, tree, states, mainCount,
                   pushed, milestone, pulls, rows, pullRequest, updated, reviewers,
                   commented>>

MainGrep ==
    /\ pc = "mainGrep"
    /\ \E count \in 0..MaxMatches, trouble \in BOOLEAN :
          LET run == checkExec(GrepExit(count, trouble), FALSE, "", sources)
              r == IF ~run.ok THEN run
                   ELSE IF MainGate(run.value) THEN Throw(MainFound)
                   ELSE run
          IN  /\ Step("mainGrep", r, After("mainGrep"), "request.catch")
              /\ mainCount' = IF run.ok THEN count ELSE -1
              /\ status' = IF run.ok THEN Assign(status, [mainGrep |-> run.value])
                           ELSE status
    /\ UNCHANGED <<render, created, inputs, outputs, stores, forge, tree, states, todoCount,
                   pushed, milestone, pulls, rows, pullRequest, updated, reviewers,
                   commented>>

BranchCommit ==
    /\ pc = "branchCommit"
    /\ \E code \in ExitCodes :
          LET r == checkExec(code, TRUE, CommitFailed, cloned)
          IN  /\ Step("branchCommit", r, After("branchCommit"), "request.catch")
              /\ status' = IF r.ok THEN Assign(status, [branchCommit |-> code]) ELSE status
    /\ UNCHANGED <<render, created, inputs, outputs, stores, forge, tree, states, todoCount, mainCount,
                   pushed, milestone, pulls, rows, pullRequest, updated, reviewers,
                   commented>>

\* git push -u origin <states.branch>: git can push only a branch that exists
\* on the checkout, and that the remote does not hold already: the head branch
\* of an open pull request is on the remote
RemoteBranches == {"review/" \o created[i].version : i \in 1..Len(created)}

PushCodesAny == ExitCodes

PushCodes ==
    IF branch # "" /\ Get(states, "branch") = branch /\ branch \notin RemoteBranches
    THEN ExitCodes ELSE {1}

BranchPush ==
    /\ pc = "branchPush"
    /\ \E code \in PushCodes :
          LET r == checkExec(code, TRUE, PushFailed, cloned)
          IN  /\ Step("branchPush", r, After("branchPush"), "request.catch")
              /\ status' = IF r.ok THEN Assign(status, [branchPush |-> code]) ELSE status
              /\ pushed' = r.ok
    /\ UNCHANGED <<render, created, inputs, outputs, stores, forge, tree, states, todoCount, mainCount,
                   milestone, pulls, rows, pullRequest, updated, reviewers, commented>>

\* listStatus: status of listMilestones; found: a milestone "Project <n>" is
\* listed; createStatus: status of createMilestone.  With a status other than
\* 200 the code evaluates SON.stringify, which throws a ReferenceError.
getMilestone(listStatus, found, createStatus) ==
    IF listStatus # 200 THEN Throw(SONError)
    ELSE IF ~found
    THEN IF createStatus # 201 THEN Throw(MilestoneFailed) ELSE Ok(2)
    ELSE Ok(1)

GetMilestone ==
    /\ pc = "getMilestone"
    /\ \E listStatus \in {200, 500}, found \in BOOLEAN, createStatus \in {201, 422} :
          LET r == getMilestone(listStatus, found, createStatus)
          IN  /\ Step("getMilestone", r, After("getMilestone"), "request.catch")
              /\ milestone' = IF r.ok THEN r.value ELSE 0
              /\ apiStatus' = IF listStatus = 200 /\ ~found
                              THEN <<listStatus, createStatus>> ELSE <<listStatus>>
    /\ UNCHANGED <<render, created, inputs, outputs, stores, tree, states, todoCount, mainCount, status,
                   pushed, pulls, rows, pullRequest, updated, reviewers, commented,
                   workflow_runs, verified, funApproved, desApproved, openPulls,
                   funPassed, issues>>

\* the pull requests the forge can list: labels, state and draft flag
LabelLists(project) == {<<>>, <<"project" \o project>>, <<"project9", "v9.0.0">>}

PullStates == {<<"open", TRUE>>, <<"open", FALSE>>, <<"closed", FALSE>>}

PullLists(project) ==
    UNION { { [i \in 1..n |->
                 [number |-> n - i + 1, labels |-> k[i][1],
                  state |-> k[i][2][1], draft |-> k[i][2][2]]] :
              k \in [1..n -> LabelLists(project) \X PullStates] } : n \in 0..MaxPulls }

HasLabel(x, name) == \E i \in 1..Len(x.labels) : x.labels[i] = name

getPullRequestsStrict(listStatus, data, project) ==
    IF listStatus # 200 THEN Throw(ListPullsFailed)
    ELSE LET OfProject(x) == HasLabel(x, "project" \o project)
         IN  Ok(SelectSeq(data, OfProject))

getPullRequests(listStatus, data, project) ==
    IF listStatus = 404 THEN Ok(<<>>)
    ELSE IF listStatus # 200 THEN Throw(ListPullsFailed)
    ELSE LET OfProject(x) == HasLabel(x, "project" \o project)
         IN  Ok(SelectSeq(data, OfProject))

GetPullRequests ==
    /\ pc = "getPullRequests"
    /\ \E listStatus \in {200, 404, 500}, data \in PullLists(Get(states, "project")) :
          LET r == getPullRequests(listStatus, data, Get(states, "project"))
          IN  /\ Step("getPullRequests", r,
                      IF r.ok /\ Len(r.value) > 0 THEN After("getPullRequests")
                      ELSE After("listReviews"),
                      "request.catch")
              /\ warnings' = IF listStatus = 404 THEN warnings + 1 ELSE warnings
              /\ pulls' = IF r.ok THEN r.value ELSE <<>>
              /\ apiStatus' = <<listStatus>>
    /\ UNCHANGED <<render, created, inputs, stores, tree, states, todoCount, mainCount, status,
                   pushed, milestone, rows, pullRequest, updated, reviewers, commented,
                   failed, failMsg, summaries, notices,
                   workflow_runs, verified, funApproved, desApproved, openPulls,
                   funPassed, issues>>

\* one turn of the loop over the prior pull requests: listReviews, whose status
\* the code does not look at, and the row of the table.  isArray: the response
\* carries a list of reviews.
ListReviews ==
    /\ pc = "listReviews"
    /\ \E listStatus \in {200, 500}, isArray \in BOOLEAN :
          /\ listStatus = 200 => isArray
          /\ LET r == IF isArray THEN Ok(None) ELSE Throw(NotAnArray)
             IN  /\ log' = Append(log, "listReviews")
                 /\ pc' = IF ~r.ok THEN "request.catch"
                          ELSE IF Len(pulls) > 1 THEN "listReviews"
                          ELSE After("listReviews")
                 /\ errorMsg' = IF r.ok THEN errorMsg ELSE r.error
                 /\ failedAt' = IF failedAt = 0 /\ listStatus # 200
                                THEN Len(log) + 1 ELSE failedAt
                 /\ rows' = IF r.ok THEN rows + 1 ELSE rows
                 /\ pulls' = IF r.ok THEN Tail(pulls) ELSE pulls
          /\ apiStatus' = <<listStatus>>
    /\ UNCHANGED <<render, created, inputs, outputs, stores, tree, states, todoCount, mainCount, status,
                   pushed, milestone, pullRequest, updated, reviewers, commented,
                   workflow_runs, verified, funApproved, desApproved, openPulls,
                   funPassed, issues>>

\* a forge call whose status the code compares with `expected`
Expect(callStatus, expected, error) ==
    IF callStatus # expected THEN Throw(error) ELSE Ok(None)

CreatePull ==
    /\ pc = "createPull"
    /\ \E callStatus \in {201, 422} :
          LET r == Expect(callStatus, 201, CreateFailed)
          IN  /\ Step("createPull", r, After("createPull"), "request.catch")
              /\ pullRequest' = IF r.ok THEN 30 ELSE 0
              /\ created' = IF r.ok
                             THEN Append(created, [version |-> Get(states, "version"),
                                                   labelled |-> FALSE])
                             ELSE created
              /\ apiStatus' = <<callStatus>>
    /\ UNCHANGED <<render, inputs, outputs, stores, tree, states, todoCount, mainCount, status,
                   pushed, milestone, pulls, rows, updated, reviewers, commented,
                   workflow_runs, verified, funApproved, desApproved, openPulls,
                   funPassed, issues>>

UpdateIssue ==
    /\ pc = "updateIssue"
    /\ \E callStatus \in {200, 500} :
          LET r == Expect(callStatus, 200, UpdateFailed)
          IN  /\ Step("updateIssue", r, After("updateIssue"), "request.catch")
              /\ updated' = r.ok
              /\ created' = IF r.ok /\ created # <<>>
                             THEN [created EXCEPT ![Len(created)].labelled = TRUE]
                             ELSE created
              /\ apiStatus' = <<callStatus>>
    /\ UNCHANGED <<render, inputs, outputs, stores, tree, states, todoCount, mainCount, status,
                   pushed, milestone, pulls, rows, pullRequest, reviewers, commented,
                   workflow_runs, verified, funApproved, desApproved, openPulls,
                   funPassed, issues>>

RequestReviewers ==
    /\ pc = "requestReviewers"
    /\ \E callStatus \in {201, 422} :
          LET r == Expect(callStatus, 201, ReviewersFailed)
          IN  /\ Step("requestReviewers", r, After("requestReviewers"), "request.catch")
              /\ reviewers' = r.ok
              /\ apiStatus' = <<callStatus>>
    /\ UNCHANGED <<render, created, inputs, outputs, stores, tree, states, todoCount, mainCount, status,
                   pushed, milestone, pulls, rows, pullRequest, updated, commented,
                   workflow_runs, verified, funApproved, desApproved, openPulls,
                   funPassed, issues>>

CreateComment ==
    /\ pc = "createComment"
    /\ \E callStatus \in {201, 500} :
          LET r == Expect(callStatus, 201, CommentFailed)
          IN  /\ Step("createComment", r, After("createComment"), "request.catch")
              /\ commented' = r.ok
              /\ apiStatus' = <<callStatus>>
    /\ UNCHANGED <<render, created, inputs, outputs, stores, tree, states, todoCount, mainCount, status,
                   pushed, milestone, pulls, rows, pullRequest, updated, reviewers,
                   workflow_runs, verified, funApproved, desApproved, openPulls,
                   funPassed, issues>>

\* utils.showSuccess and core.notice
ShowSuccess ==
    /\ pc = "showSuccess"
    /\ Step("showSuccess", Ok(None), After("showSuccess"), "request.catch")
    /\ notices' = notices + 1
    /\ UNCHANGED <<render, created, inputs, stores, forge, tree, request, states,
                   failed, failMsg, warnings, summaries>>

\* the catch block: showError, core.setFailed
RequestCatch ==
    /\ pc = "request.catch"
    /\ failed' = [failed EXCEPT !.request = @ + 1]
    /\ failMsg' = "Code review request failed. " \o errorMsg
    /\ pc' = "request.finally"
    /\ UNCHANGED <<render, created, inputs, stores, forge, tree, request, states, errorMsg,
                   warnings, summaries, notices, log, failedAt>>

\* the finally block: the status log and checkWarnings
RequestFinally ==
    /\ pc = "request.finally"
    /\ summaries' = summaries + checkWarnings(warnings)
    /\ pc' = "request.done"
    /\ UNCHANGED <<render, created, inputs, stores, forge, tree, request, states, errorMsg, failed,
                   failMsg, warnings, notices, log, failedAt>>

RequestNext ==
    \/ RestoreStates \/ ShowVersions \/ Compile \/ TodoGrep \/ MainGrep
    \/ BranchCommit \/ BranchPush \/ GetMilestone \/ GetPullRequests
    \/ ListReviews \/ CreatePull \/ UpdateIssue \/ RequestReviewers
    \/ CreateComment \/ ShowSuccess \/ RequestCatch \/ RequestFinally

-----------------------------------------------------------------------------
(* saveStates then restoreStates on a mapping of its own *)

RtKeys == {"a", "b", "keys", "q\"\\"}
RtValues == {"", "1", "2"}
RtMappings == UNION { [keys -> RtValues] : keys \in SUBSET RtKeys }

InitRT ==
    /\ pc = "rt.save"
    /\ typeInput = "" /\ refInput = ""
    /\ rt \in RtMappings
    /\ Fresh /\ NoLabels /\ NoReviews

RtSave ==
    /\ pc = "rt.save"
    /\ hostState' = saveStates(hostState, rt)
    /\ saves' = saves + 1
    /\ pc' = "rt.restore"
    /\ UNCHANGED <<render, created, inputs, outputs, forge, tree, request, states, errorMsg, log,
                   failedAt, restores, setupLog, rt>>

RtRestore ==
    /\ pc = "rt.restore"
    /\ states' = restoreStates(Empty, hostState)
    /\ restores' = restores + 1
    /\ pc' = "rt.done"
    /\ UNCHANGED <<render, created, inputs, outputs, forge, tree, request, hostState, errorMsg, log,
                   failedAt, saves, setupLog, rt>>

NextRT == RtSave \/ RtRestore

SpecRT == InitRT /\ [][NextRT]_vars

-----------------------------------------------------------------------------
(* part_001: the labels column of the pull-request table,                   *)
(* pull.labels.sort(sorter).map(x => x.name)                                *)

\* the characters of the label names, in ascending order of code unit
CodeUnits == "-.0123456789abcdefghijklmnopqrstuvwxyz"

CodeUnit(c) == CHOOSE i \in 1..Len(CodeUnits) : Char(CodeUnits, i) = c

RECURSIVE Less(_, _)
Less(x, y) ==                       \* x < y on strings
    IF Len(y) = 0 THEN FALSE
    ELSE IF Len(x) = 0 THEN TRUE
    ELSE IF Char(x, 1) = Char(y, 1) THEN Less(Tail(x), Tail(y))
    ELSE CodeUnit(Char(x, 1)) < CodeUnit(Char(y, 1))

startsWith(name, prefix) ==
    Len(name) >= Len(prefix) /\ SubSeq(name, 1, Len(prefix)) = prefix

\* the comparator, on the names of the two labels
sorter(x, y) ==
    IF startsWith(x, "project") THEN -1
    ELSE IF startsWith(y, "project") THEN 1
    ELSE IF startsWith(x, "v") THEN -1
    ELSE IF startsWith(y, "v") THEN 1
    ELSE IF Less(x, y) THEN -1
    ELSE IF Less(y, x) THEN -1
    ELSE 0

\* the array with the elements of positions from..to in reverse order
ReverseRange(a, from, to) ==
    [i \in 1..Len(a) |-> IF i >= from /\ i <= to THEN a[from + to - i] ELSE a[i]]

\* the array with the element of position from moved down to position to
Move(a, from, to) ==
    [i \in 1..Len(a) |->
        IF i < to \/ i > from THEN a[i]
        ELSE IF i = to THEN a[from]
        ELSE a[i - 1]]

\* Array.prototype.sort of V8 7.0 and later (Node.js 11 and later), for
\* arrays shorter than 64: the leading run is found, and reversed when it
\* descends, and the other elements are inserted by binary search.
RECURSIVE RunLength(_, _, _)
RunLength(a, idx, isDescending) ==
    IF idx > Len(a) THEN idx - 1
    ELSE LET order == sorter(a[idx], a[idx - 1])
         IN  IF isDescending /\ order >= 0 THEN idx - 1
             ELSE IF ~isDescending /\ order < 0 THEN idx - 1
             ELSE RunLength(a, idx + 1, isDescending)

CountAndMakeRun(a) ==
    IF Len(a) = 1 THEN [array |-> a, runLength |-> 1]
    ELSE LET isDescending == sorter(a[2], a[1]) < 0
             runLength == RunLength(a, 3, isDescending)
         IN  [array |-> IF isDescending THEN ReverseRange(a, 1, runLength) ELSE a,
              runLength |-> runLength]

RECURSIVE BinarySearch(_, _, _, _)
BinarySearch(a, pivot, left, right) ==
    IF left >= right THEN left
    ELSE LET mid == left + ((right - left) \div 2)
         IN  IF sorter(pivot, a[mid]) < 0
             THEN BinarySearch(a, pivot, left, mid)
             ELSE BinarySearch(a, pivot, mid + 1, right)

RECURSIVE BinaryInsertionSort(_, _)
BinaryInsertionSort(a, start) ==
    IF start > Len(a) THEN a
    ELSE BinaryInsertionSort(Move(a, start, BinarySearch(a, a[start], 1, start)),
                             start + 1)

ArrayTimSort(a) ==
    IF Len(a) < 2 THEN a
    ELSE LET run == CountAndMakeRun(a)
         IN  BinaryInsertionSort(run.array, run.runLength + 1)

\* Array.prototype.sort of V8 before 7.0, for arrays of up to 10 elements:
\* each element sinks below the elements the comparator puts after it.
RECURSIVE InsertionPoint(_, _, _)
InsertionPoint(a, element, j) ==
    IF j < 1 THEN 1
    ELSE IF sorter(a[j], element) > 0 THEN InsertionPoint(a, element, j - 1)
    ELSE j + 1

RECURSIVE InsertionSort(_, _)
InsertionSort(a, i) ==
    IF i > Len(a) THEN a
    ELSE InsertionSort(Move(a, i, InsertionPoint(a, a[i], i - 1)), i + 1)

\* the comparator is not a consistent one (it answers -1 both ways for two
\* other labels), so the order is the one the engine's algorithm produces
Engines == {"timsort", "insertion"}

sort(algorithm, a) ==
    IF algorithm = "timsort" THEN ArrayTimSort(a) ELSE InsertionSort(a, 2)

\* the label names a pull request may carry; the names of one pull request
\* are distinct
LabelNames == {"project1", "project3", "v1.2.0", "bug", "zzz"}

LabelArrays ==
    UNION { {a \in [1..n -> LabelNames] :
                \A i, j \in 1..n : a[i] = a[j] => i = j} : n \in 0..MaxLabels }

InitSort ==
    /\ pc = "sort.labels"
    /\ typeInput = "" /\ refInput = ""
    /\ rt = Empty
    /\ engine \in Engines /\ labels \in LabelArrays /\ rendered = <<>>
    /\ Fresh /\ NoReviews

SortLabels ==
    /\ pc = "sort.labels"
    /\ rendered' = sort(engine, labels)
    /\ pc' = "sort.done"
    /\ UNCHANGED <<inputs, outputs, stores, forge, tree, request, states,
                   errorMsg, log, failedAt, engine, labels, created>>

NextSort == SortLabels

SpecSort == InitSort /\ [][NextSort]_vars

-----------------------------------------------------------------------------
SetupNext ==
    \/ ParseProject \/ VerifyRelease
    \/ CheckFunctionality \/ CheckDesign \/ CheckPulls
    \/ CloneProject \/ PrepareBranch \/ CacheMaven \/ SaveStates
    \/ SetupCatch \/ SetupFinally

Next == SetupNext \/ StartRequest \/ RequestNext

Spec == Init /\ [][Next]_vars

-----------------------------------------------------------------------------
(* The workflow run again: a new runner, with a new workspace and no saved  *)
(* state; the forge keeps the pull requests of the earlier runs, of which    *)
(* some may have been closed or merged in between                            *)

RECURSIVE StillOpen(_, _)
StillOpen(list, closed) ==
    IF list = <<>> THEN <<>>
    ELSE StillOpen(SubSeq(list, 1, Len(list) - 1), closed)
            \o (IF Len(list) \in closed THEN <<>> ELSE <<list[Len(list)]>>)

NewRun ==
    /\ pc = "request.done"
    /\ \E closed \in SUBSET (1..Len(created)) :
          /\ Len(created) - Cardinality(closed) <= MaxOpen
          /\ created' = StillOpen(created, closed)
    /\ pc' = "parseProject"
    /\ typeInput' \in TypeInputs
    /\ refInput' \in RefInputs
    /\ states' = Empty /\ hostState' = Empty
    /\ failed' = [setup |-> 0, request |-> 0]
    /\ failMsg' = "" /\ errorMsg' = ""
    /\ warnings' = 0 /\ summaries' = 0 /\ notices' = 0
    /\ log' = <<>> /\ failedAt' = 0 /\ setupLog' = <<>>
    /\ saves' = 0 /\ restores' = 0
    /\ workflow_runs' = <<>> /\ apiStatus' = <<>> /\ verified' = <<>>
    /\ funApproved' = {} /\ desApproved' = {} /\ openPulls' = {}
    /\ funPassed' = <<>> /\ issues' = <<>>
    /\ cloned' = FALSE /\ sources' = FALSE /\ changed' = -1 /\ branch' = ""
    /\ todoCount' = -1 /\ mainCount' = -1 /\ status' = Empty
    /\ pushed' = FALSE /\ milestone' = 0 /\ pulls' = <<>> /\ rows' = 0
    /\ pullRequest' = 0 /\ updated' = FALSE /\ reviewers' = FALSE
    /\ commented' = FALSE
    /\ UNCHANGED <<render, rt>>

NextRuns == Next \/ NewRun

SpecRuns == Init /\ [][NextRuns]_vars

-----------------------------------------------------------------------------
(* Properties *)

InSetup ==
    pc \in {"parseProject", "verifyRelease", "checkIssues", "checkIssues.design",
            "checkIssues.pulls", "cloneProject", "prepareBranch", "cacheMaven",
            "saveStates", "setup.catch", "setup.finally", "setup.done"}

InRequest == pc \in {RequestSteps[i] : i \in 1..Len(RequestSteps)}
                       \cup {"request.catch", "request.finally", "request.done"}

\* the step at which the running script failed, "" when none did
FailedStep == IF failedAt = 0 THEN "" ELSE log[failedAt]

\* checkIssues has returned / has thrown
GateSucceeded == issues # <<>>
GateFailed == InSetup /\ FailedStep = "checkIssues"

Least(numbers) == CHOOSE n \in numbers : \A m \in numbers : n <= m

\* C1, as stated: checkIssues succeeds only with exactly one approved
\* functionality issue, and with exactly one (no approved design issue, no open
\* pull request) it succeeds and returns that issue.
C1_ExactlyOne ==
    /\ GateSucceeded => Cardinality(funApproved) = 1
    /\ ( /\ apiStatus = <<200, 200, 200, 200>> /\ Cardinality(funApproved) = 1
         /\ desApproved = {} /\ openPulls = {}
         /\ InSetup /\ pc # "checkIssues.pulls" )
       => /\ GateSucceeded
          /\ issues[1].issueNumber = ToString(Least(funApproved))

\* C1, amended: checkIssues fails when no listed functionality issue is
\* approved; with one or more approved (no approved design issue, no open pull
\* request, every listing answered 200) it succeeds and returns the number and
\* url of the first approved functionality issue of the listing.
C1_AtLeastOne ==
    /\ GateSucceeded =>
          /\ funApproved # {}
          /\ issues[1].issueNumber = ToString(Least(funApproved))
          /\ issues[1].issueUrl = "issues/" \o ToString(Least(funApproved))
          /\ states.issueNumber = issues[1].issueNumber
    /\ ( /\ apiStatus = <<200, 200, 200, 200>> /\ funApproved # {}
         /\ desApproved = {} /\ openPulls = {}
         /\ InSetup /\ pc # "checkIssues.pulls" )
       => GateSucceeded
    /\ (InSetup /\ "checkIssues" \in {log[i] : i \in 1..Len(log)}
          /\ pc # "checkIssues.design" /\ funApproved = {})
       => GateFailed

C1_Witness == GateSucceeded /\ Cardinality(funApproved) = 2

\* the state right after verifyRelease, both forge calls answered 200
RunsListed == Len(log) = 2 /\ log[2] = "verifyRelease" /\ apiStatus = <<200, 200>>

OnTag(r) == r.head_branch = states.version
Successful(r) == r.status = "completed" /\ r.conclusion = "success"

\* C2, as stated: verifyRelease fails when no run of the tag's branch is
\* completed and successful, and succeeds, returning that run, whenever
\* exactly one such run is in the listing, whatever else the listing holds.
C2_ExactlyOneRun ==
    RunsListed =>
       LET good == {i \in 1..Len(workflow_runs) :
                       OnTag(workflow_runs[i]) /\ Successful(workflow_runs[i])}
       IN  /\ good = {} => verified = <<>>
           /\ Cardinality(good) = 1 =>
                 /\ verified # <<>>
                 /\ \A i \in good : verified[1] = workflow_runs[i]

\* C2, amended: verifyRelease fails when no run of the tag's branch is
\* completed and successful; it succeeds exactly when both forge calls answer
\* 200 and the first run of the listing whose branch is the tag is completed
\* and successful, and it returns that run.
C2_FirstRunOfTag ==
    /\ RunsListed =>
          LET onTag == {i \in 1..Len(workflow_runs) : OnTag(workflow_runs[i])}
          IN  /\ (\A i \in onTag : ~Successful(workflow_runs[i])) => verified = <<>>
              /\ verified # <<>> <=>
                    /\ onTag # {}
                    /\ Successful(workflow_runs[Least(onTag)])
              /\ verified # <<>> =>
                    /\ verified[1] = workflow_runs[Least(onTag)]
                    /\ states.runNumber = ToString(verified[1].run_number)
    /\ (Len(log) = 2 /\ log[2] = "verifyRelease" /\ apiStatus # <<200, 200>>)
          => verified = <<>> /\ FailedStep = "verifyRelease"

C2_Witness ==
    /\ RunsListed /\ verified # <<>> /\ Len(workflow_runs) = 2
    /\ \A i \in 1..2 : OnTag(workflow_runs[i])
    /\ ~Successful(workflow_runs[2])

\* C3: the run verifyRelease accepts is a run of event "release" and of the
\* workflow "Run Project Tests".
C3_VerifiedRunIsFiltered == verified # <<>> => IsReleaseTestRun(verified[1])

\* C4: the review branch is created only after git diff --exit-code reported
\* no difference; when it reports one, prepareBranch throws the
\* main-has-commits error, no branch is created and no later step runs.
C4_BranchOnlyWhenEven ==
    /\ branch # "" => changed = 0
    /\ changed \notin {-1, 0} =>
          /\ branch = "" /\ saves = 0 /\ hostState = Empty
          /\ InSetup => /\ pc \in {"setup.catch", "setup.finally", "setup.done"}
                        /\ FailedStep = "prepareBranch"
                        /\ log[Len(log)] = "prepareBranch"
                        /\ errorMsg = MainChanged

C4_Witness == changed = 128 /\ pc = "setup.done" /\ failed.setup = 1

\* C5: when the design listing holds an approved issue, checkIssues throws
\* (an approved functionality issue notwithstanding) and no review branch is
\* created in that run.
C5_ApprovedDesignFails ==
    desApproved # {} =>
       /\ ~GateSucceeded /\ GateFailed
       /\ errorMsg = DesignApproved
       /\ pc \in {"setup.catch", "setup.finally", "setup.done"}
       /\ branch = "" /\ ~cloned

C5_Witness == desApproved # {} /\ funApproved # {} /\ failed.setup = 1

\* C6: when the synchronous and asynchronous listings hold an open pull
\* request, checkIssues throws, and the run neither clones, nor prepares the
\* branch, nor saves state.
C6_OpenPullFails ==
    openPulls # {} =>
       /\ ~GateSucceeded /\ GateFailed
       /\ pc \in {"setup.catch", "setup.finally", "setup.done"}
       /\ ~cloned /\ branch = "" /\ saves = 0 /\ hostState = Empty

C6_Witness == openPulls # {} /\ pc = "setup.done" /\ failed.setup = 1

\* the catch, finally and end of the running script
Aborted ==
    IF InSetup THEN pc \in {"setup.catch", "setup.finally", "setup.done"}
    ELSE pc \in {"request.catch", "request.finally", "request.done"}

MarkedFailed == IF InSetup THEN failed.setup ELSE failed.request

\* C7: once a step has failed (a fatal command exits nonzero, a forge call
\* returns an unexpected status, a policy check fails) no later step of the
\* script runs, the run is marked failed once with the error message and the
\* success notice is not emitted; the notice is emitted only when every step
\* of the request script succeeded.
C7_FailureAborts ==
    /\ failedAt # 0 =>
          /\ Len(log) = failedAt
          /\ Aborted
          /\ notices = 0
          /\ pc \notin {"setup.catch", "request.catch"} =>
                MarkedFailed = 1 /\ failMsg # "" /\ errorMsg # ""
    /\ failed.setup <= 1 /\ failed.request <= 1
    /\ notices <= 1
    /\ notices = 1 => failedAt = 0 /\ failed.request = 0 /\ commented

SetupLogSoFar == IF InSetup THEN log ELSE setupLog

\* C8: saveStates runs once, as the last step of the setup script, exactly in
\* the runs where every setup step succeeded, and never after a failed step;
\* the request script calls restoreStates once, as its first step.
C8_SavedOnceRestoredFirst ==
    /\ saves <= 1 /\ restores <= 1
    /\ saves = 1 =>
          /\ SetupLogSoFar = <<"parseProject", "verifyRelease", "checkIssues",
                               "cloneProject", "prepareBranch", "cacheMaven",
                               "saveStates">>
          /\ failed.setup = 0
          /\ hostState # Empty
    /\ saves = 0 => hostState = Empty
    /\ (pc = "setup.done" \/ InRequest) => (saves = 1 <=> failed.setup = 0)
    /\ (InSetup /\ failedAt # 0) => saves = 0
    /\ InSetup => restores = 0
    /\ InRequest =>
          /\ restores = (IF log = <<>> THEN 0 ELSE 1)
          /\ log # <<>> => log[1] = "restoreStates"

C8_Witness ==
    /\ saves = 1 /\ restores = 1 /\ pc = "showVersions"
    /\ branch # "" /\ Get(states, "branch") = branch

\* C9, as stated: for every mapping, of any key names, saveStates followed by
\* restoreStates({}) gives back the mapping.
C9_AnyKeys == pc = "rt.done" => states = rt

\* C9, away from the collision: for every mapping without a key named "keys", saveStates
\* followed by restoreStates({}) gives back the mapping, key set and values;
\* with a key named "keys" the other keys still come back with their values.
C9_RoundTrip ==
    pc = "rt.done" =>
       /\ "keys" \notin DOMAIN rt => states = rt
       /\ DOMAIN states = DOMAIN rt
       /\ \A k \in (DOMAIN rt) \ {"keys"} : states[k] = rt[k]

C9_Witness ==
    /\ pc = "rt.done" /\ "keys" \notin DOMAIN rt
    /\ {"a", "q\"\\"} \subseteq DOMAIN rt
    /\ states = rt /\ rt["a"] # rt["q\"\\"]

TodoFailed == InRequest /\ FailedStep = "todoGrep"
MainFailed == InRequest /\ FailedStep = "mainGrep"

\* C10, as stated: each scan passes when the number of matching lines is
\* exactly 1 and fails for every other number.
C10_MatchCountIsOne ==
    /\ todoCount # -1 => (todoCount = 1 <=> ~TodoFailed)
    /\ mainCount # -1 => (mainCount = 1 <=> ~MainFailed)

\* C10, amended: each scan is an exact-equality gate on the exit status of
\* grep: it passes when the status is 1, which grep gives when no line
\* matches, and fails with its error for every other status: 0, one or more
\* matching lines, and 2, a grep error.
C10_ExitStatusIsOne ==
    /\ todoCount # -1 =>
          /\ TodoFailed <=> status.todoGrep # 1
          /\ TodoFailed => errorMsg = TodoFound /\ Len(log) = failedAt
          /\ status.todoGrep = 1 => todoCount = 0
          /\ todoCount >= 1 => TodoFailed
    /\ mainCount # -1 =>
          /\ MainFailed <=> status.mainGrep # 1
          /\ MainFailed => errorMsg = MainFound /\ Len(log) = failedAt
          /\ status.mainGrep = 1 => mainCount = 0
          /\ mainCount >= 1 => MainFailed

C10_Witness ==
    /\ todoCount = 0 /\ status.todoGrep = 1
    /\ mainCount = 1 /\ MainFailed /\ pc = "request.done"

\* positions of the rendered labels by kind
IsProject(name) == startsWith(name, "project")
IsTag(name) == ~IsProject(name) /\ startsWith(name, "v")
IsOther(name) == ~IsProject(name) /\ ~startsWith(name, "v")

Permutation(a, b) ==
    /\ Len(a) = Len(b)
    /\ \A name \in LabelNames :
          Cardinality({i \in 1..Len(a) : a[i] = name})
             = Cardinality({i \in 1..Len(b) : b[i] = name})

ProjectsFirst(a) ==
    \A i, j \in 1..Len(a) : IsProject(a[i]) /\ ~IsProject(a[j]) => i < j

TagsNext(a) ==
    \A i, j \in 1..Len(a) : IsTag(a[i]) /\ IsOther(a[j]) => i < j

OthersAscending(a) ==
    \A i, j \in 1..Len(a) : IsOther(a[i]) /\ IsOther(a[j]) /\ i < j => Less(a[i], a[j])

\* C11: the rendered labels are a permutation of the listed ones in which the
\* labels starting with "project" come first, the labels starting with "v"
\* next, and the remaining labels last in ascending lexicographic order.
C11_LabelsSorted ==
    pc = "sort.done" =>
       /\ Permutation(labels, rendered)
       /\ ProjectsFirst(rendered) /\ TagsNext(rendered)
       /\ OthersAscending(rendered)

\* C11, the parts of it the comparator does give: a permutation, and the
\* example of the claim
C11_PermutationAndExample ==
    pc = "sort.done" =>
       /\ Permutation(labels, rendered)
       /\ labels = <<"v1.2.0", "project3", "zzz">>
             => rendered = <<"project3", "v1.2.0", "zzz">>

C11_GroupsInOrder ==
    pc = "sort.done" => ProjectsFirst(rendered) /\ TagsNext(rendered)

\* the step the running script took last, "" before the first
LastStep == IF log = <<>> THEN "" ELSE log[Len(log)]

\* the steps that call the forge, the status each of their calls is compared
\* with, and the errors they raise for another status
ForgeSteps ==
    {"verifyRelease", "checkIssues", "getMilestone", "getPullRequests",
     "listReviews", "createPull", "updateIssue", "requestReviewers",
     "createComment"}

SuccessCodes(step, call) ==
    CASE step = "getMilestone" /\ call = 2 -> {201}
      [] step \in {"createPull", "requestReviewers", "createComment"} -> {201}
      [] step = "getPullRequests" -> {200, 404}
      [] OTHER -> {200}

DescriptiveErrors(step) ==
    CASE step = "verifyRelease" -> {FetchError, ListRunsError}
      [] step = "checkIssues" -> {ListIssuesError}
      [] step = "getMilestone" -> {"Unable to list milestones", MilestoneFailed}
      [] step = "getPullRequests" -> {ListPullsFailed}
      [] step = "listReviews" -> {"Unable to list reviews"}
      [] step = "createPull" -> {CreateFailed}
      [] step = "updateIssue" -> {UpdateFailed}
      [] step = "requestReviewers" -> {ReviewersFailed}
      [] step = "createComment" -> {CommentFailed}
      [] OTHER -> {}

UnexpectedStatus ==
    /\ LastStep \in ForgeSteps
    /\ \E call \in 1..Len(apiStatus) :
          apiStatus[call] \notin SuccessCodes(LastStep, call)

\* C12: when a forge call of the step just taken returned a status other than
\* its success code, the script is in its catch block (or past it) with that
\* call's descriptive error.
C12_EveryStatusChecked ==
    UnexpectedStatus => Aborted /\ errorMsg \in DescriptiveErrors(LastStep)

\* C12, for the calls other than listReviews and listMilestones
C12_OtherCallsChecked ==
    (UnexpectedStatus /\ LastStep # "listReviews"
        /\ ~(LastStep = "getMilestone" /\ apiStatus[1] # 200))
    => Aborted /\ errorMsg \in DescriptiveErrors(LastStep)

\* C12, listMilestones: the script aborts, with a ReferenceError
C12_MilestoneListingAborts ==
    (UnexpectedStatus /\ LastStep = "getMilestone" /\ apiStatus[1] # 200)
    => Aborted /\ errorMsg = SONError

\* C13: a 404 from the pull-request listing counts one warning, leaves no
\* prior pull requests and takes the request script on to the creation of the
\* pull request; the warning summary is emitted only by the finally block,
\* once, with or without a failure, exactly when the counter is at least 1.
C13_WarningsDoNotAbort ==
    /\ (LastStep = "getPullRequests" /\ apiStatus = <<404>>) =>
          /\ pc = "createPull" /\ failedAt = 0 /\ errorMsg = ""
          /\ warnings = 1 /\ pulls = <<>> /\ rows = 0
    /\ summaries <= 1
    /\ pc \notin {"setup.done", "request.done"} => summaries = 0
    /\ pc \in {"setup.done", "request.done"} => (summaries = 1 <=> warnings >= 1)

\* the listing answered 404, the pull request was created, a later step failed
\* and the summary was emitted
C13_Witness ==
    /\ pc = "request.done" /\ warnings = 1 /\ summaries = 1
    /\ pullRequest # 0 /\ failed.request = 1

\* a string of the form v<1-4>.<digits>.<digits>, and the position of its
\* second dot
SecondDot(s) ==
    {d \in 5..(Len(s) - 1) :
        /\ SubSeq(s, d, d) = "."
        /\ IsDigits(SubSeq(s, 4, d - 1))
        /\ IsDigits(SubSeq(s, d + 1, Len(s)))}

IsVersionTag(s) ==
    /\ Len(s) >= 6
    /\ SubSeq(s, 1, 1) = "v"
    /\ SubSeq(s, 2, 2) \in {"1", "2", "3", "4"}
    /\ SubSeq(s, 3, 3) = "."
    /\ SecondDot(s) # {}

\* the part of a reference after its last slash
AfterLastSlash(s) ==
    LET k == CHOOSE n \in 0..Len(s) :
                /\ n = 0 \/ SubSeq(s, n, n) = "/"
                /\ \A m \in (n + 1)..Len(s) : SubSeq(s, m, m) # "/"
    IN  SubSeq(s, k + 1, Len(s))

FirstOf(s) == IF Len(s) = 0 THEN "" ELSE SubSeq(s, 1, 1)

\* the setup script is past parseProject, which threw `error`
ParseFailedWith(error) ==
    /\ FailedStep = "parseProject" /\ errorMsg = error
    /\ states = Empty /\ branch = ""

\* the details parseProject returned for the tag `tag` and the type `type`
ParsedAs(tag, type) ==
    LET d == CHOOSE n \in SecondDot(tag) : TRUE
    IN  /\ FailedStep # "parseProject"
        /\ states.type = type
        /\ ToNumber(states.project) = ToNumber(SubSeq(tag, 2, 2))
        /\ ToNumber(states.reviews) = ToNumber(SubSeq(tag, 4, d - 1))
        /\ ToNumber(states.patches) = ToNumber(SubSeq(tag, d + 1, Len(tag)))
        /\ states.version = tag
        /\ branch # "" => branch = "review/" \o tag /\ states.branch = branch

Parsed == InSetup /\ log # <<>>

\* C14, as stated: a reference that is not of the form v<1-4>.<int>.<int>
\* fails with the parse error; one that is, with a type starting with s or a,
\* gives the three numbers, the tag and the branch review/<tag>, and with an
\* empty type or another first character fails.
C14_WholeReference ==
    Parsed =>
       /\ ~IsVersionTag(refInput) => ParseFailedWith(ParseError)
       /\ IsVersionTag(refInput) =>
             /\ FirstOf(typeInput) = "s" => ParsedAs(refInput, "Synchronous")
             /\ FirstOf(typeInput) = "a" => ParsedAs(refInput, "Asynchronous")
             /\ FirstOf(typeInput) \notin {"s", "a"} => FailedStep = "parseProject"

\* C14, amended: the type is checked first and its first character is taken
\* in either case; the form v<1-4>.<int>.<int> is asked of the part of the
\* reference after its last slash, which is the version returned.
C14_LastTokenAfterType ==
    Parsed =>
       LET tag == AfterLastSlash(refInput)
           first == FirstOf(typeInput)
           type == IF first \in {"s", "S"} THEN "Synchronous" ELSE "Asynchronous"
       IN  /\ typeInput = "" => ParseFailedWith(MissingType)
           /\ (typeInput # "" /\ first \notin {"s", "S", "a", "A"})
                 => ParseFailedWith(InvalidType)
           /\ (first \in {"s", "S", "a", "A"} /\ ~IsVersionTag(tag))
                 => ParseFailedWith(ParseError)
           /\ (first \in {"s", "S", "a", "A"} /\ IsVersionTag(tag))
                 => ParsedAs(tag, type)
           /\ (refInput = "v2.3.1" /\ typeInput = "s") =>
                 /\ states.project = "2" /\ states.reviews = "3"
                 /\ states.patches = "1" /\ states.type = "Synchronous"
                 /\ branch # "" => branch = "review/v2.3.1"

\* a reference with a prefix and a leading zero, parsed with a type in upper
\* case, and its review branch created
C14_Witness ==
    /\ InSetup /\ refInput = "refs/tags/v1.0.07" /\ typeInput = "Async"
    /\ branch = "review/v1.0.07" /\ Get(states, "patches") = "7"

\* C15: no two pull requests of this workflow for the same project are open
\* together, one of them created, however its run ended, before the run that
\* created the other.
C15_OneOpenReview ==
    \A i, j \in 1..Len(created) :
        ProjectOf(created[i].version) = ProjectOf(created[j].version) => i = j

\* C15, for the earlier pull requests that got their labels: none is open
\* when a later run creates a pull request for the same project
C15_LabelledBlocks ==
    \A i, j \in 1..Len(created) :
        (i < j /\ ProjectOf(created[i].version) = ProjectOf(created[j].version))
        => ~created[i].labelled

\* the steps the request script has executed, as a set
Executed == {log[i] : i \in 1..Len(log)}

\* the request script runs without a state to restore
NothingRestored == InRequest /\ saves = 0 /\ restores = 1

====
